---- MODULE Spec2Model ----
(***************************************************************************)
(* A model of the zsxq Q&A tools:                                          *)
(*   parse_topics.py     extractor for documents holding resp_data.topics  *)
(*   parse_single_qa.py  extractor for documents holding resp_data.topic   *)
(*   qa2md.py            compiler: sort by create_time, render Markdown    *)
(*                                                                         *)
(* JSON values are modelled as tagged records.  A leaf value is            *)
(* [k, v] with k in "absent" (the key is missing), "None", "str", "num".   *)
(* Texts and ids are tuples of one-character strings, so that slicing,     *)
(* replacing and concatenating are computed as Python computes them.       *)
(***************************************************************************)
EXTENDS Integers, Sequences, FiniteSets, TLC

VARIABLES
    prog,               \* which extractor runs: "topics", "single", "none"
    input_is_dir,       \* input_path.is_dir()
    json_files,         \* list(input_path.glob('*.json')), as parsed contents
    idx,                \* position of the for loop over json_files
    all_extracted_qas,  \* the accumulator
    files_processed,    \* files_processed_successfully / files_processed
    files_failed,
    total_qa_extracted,
    report,             \* the per-file message printed, one per handled file
    epc,                \* extractor position
    interchange,        \* the extractor's output_file, the compiler's input_file
    entry,              \* entry point of qa2md used: "compile", "render", "none"
    py311,              \* datetime.fromisoformat accepts +HHMM (Python >= 3.11)
    qa_list,
    cpc,                \* compiler position
    cerr,               \* error printed or exception raised by the compiler
    toc_lines,          \* generate_markdown_content's lists when it returned or raised
    content_lines,
    markdown_content,   \* value returned by generate_markdown_content
    md_file             \* the compiler's output_file

evars == <<prog, input_is_dir, json_files, idx, all_extracted_qas, files_processed,
           files_failed, total_qa_extracted, report, epc>>
cvars == <<entry, py311, qa_list, cpc, cerr, toc_lines, content_lines, markdown_content,
           md_file>>
vars == <<evars, interchange, cvars>>

(***************************************************************************)
(* Bounds of the model.                                                    *)
(***************************************************************************)
MaxFiles == 2       \* files in a directory
MaxTopics == 2      \* entries of a resp_data.topics list
MaxSortLen == 3     \* records of an interchange file drawn for sorting
MaxRenderLen == 1   \* records of an interchange file drawn for rendering

SeqsUpTo(S, n) == UNION {[1..k -> S] : k \in 0..n}

RECURSIVE Rep(_, _)
Rep(c, n) == IF n = 0 THEN <<>> ELSE <<c>> \o Rep(c, n - 1)

RECURSIVE Flatten(_)
Flatten(ss) == IF ss = <<>> THEN <<>> ELSE Head(ss) \o Flatten(Tail(ss))

IsPrefix(s, t) == Len(s) <= Len(t) /\ SubSeq(t, 1, Len(s)) = s

(***************************************************************************)
(* Values.                                                                 *)
(***************************************************************************)
NoChars == <<>>
Absent == [k |-> "absent", v |-> NoChars]
None == [k |-> "None", v |-> NoChars]
Str(cs) == [k |-> "str", v |-> cs]
Num(cs) == [k |-> "num", v |-> cs]

\* A create_time string: its form decides what datetime.fromisoformat does.
\*   "empty" ""            "garbage" not ISO-8601
\*   "naive" YYYY-MM-DDTHH:MM:SS           (local minutes, no offset)
\*   "colon" ...+HH:MM     "nocolon" ...+HHMM  (local minutes, offset minutes)
TimeStr(form, local, off) == [form |-> form, local |-> local, off |-> off]
NoTime == TimeStr("empty", 0, 0)
TAbsent == [k |-> "absent", v |-> NoTime]
TNone == [k |-> "None", v |-> NoTime]
TStr(ts) == [k |-> "str", v |-> ts]

\* dict.get(key): None when the key is missing.
Get(leaf) == IF leaf.k = "absent" THEN [leaf EXCEPT !.k = "None"] ELSE leaf
\* dict.get(key, default): the default only when the key is missing.
GetDefault(leaf, default) == IF leaf.k = "absent" THEN default ELSE leaf

\* A normalized record, the dict built by both extractors.
Record(id, ct, qn, qt, an, at) ==
    [topic_id |-> id, create_time |-> ct, questioner_name |-> qn,
     question_text |-> qt, answerer_name |-> an, answer_text |-> at]
NoRecord == Record(None, TNone, None, None, None, None)

\* An owner value, a question/answer value and a topic, as json.load returns them.
\* k is "absent", "None", "str" (present, not an object) or "dict".
Owner(k, name) == [k |-> k, name |-> name]
Sub(k, owner, text) == [k |-> k, owner |-> owner, text |-> text]
Topic(shape, type, id, ct, q, a) ==
    [shape |-> shape, type |-> type, topic_id |-> id, create_time |-> ct,
     question |-> q, answer |-> a]
NoOwner == Owner("absent", Absent)
NoSub == Sub("absent", NoOwner, Absent)
\* {} : what .get('topic', {}) gives for a document without a topic.
EmptyTopic == Topic("empty", "absent", Absent, TAbsent, NoSub, NoSub)
\* A list entry that is no object at all (a string).
StrTopic == Topic("str", "absent", Absent, TAbsent, NoSub, NoSub)

\* A file: kind is "noperm" (open raises PermissionError), "badjson" (json.load
\* raises JSONDecodeError), "notdict" (the top level is an array) or "dict".
Doc(kind, topics, topic) == [kind |-> kind, topics |-> topics, topic |-> topic]

(***************************************************************************)
(* The extractors' field extraction.                                       *)
(***************************************************************************)
Ok(v) == [exc |-> "none", val |-> v]
Raise(e, filler) == [exc |-> e, val |-> filler]

\* x.get('owner', {}).get('name') for x = question_data / answer_data
OwnerName(sub) ==
    IF sub.k # "dict" THEN Raise("AttributeError", None)
    ELSE IF sub.owner.k = "absent" THEN Ok(None)
    ELSE IF sub.owner.k # "dict" THEN Raise("AttributeError", None)
    ELSE Ok(Get(sub.owner.name))

\* x.get('text')
SubText(sub) ==
    IF sub.k # "dict" THEN Raise("AttributeError", None) ELSE Ok(Get(sub.text))

\* The body of the try block: the four nested reads in source order, then the dict.
ExtractFields(topic) ==
    LET qn == OwnerName(topic.question)
        qt == SubText(topic.question)
        an == OwnerName(topic.answer)
        at == SubText(topic.answer)
    IN  IF qn.exc # "none" THEN Raise(qn.exc, NoRecord)
        ELSE IF qt.exc # "none" THEN Raise(qt.exc, NoRecord)
        ELSE IF an.exc # "none" THEN Raise(an.exc, NoRecord)
        ELSE IF at.exc # "none" THEN Raise(at.exc, NoRecord)
        ELSE Ok(Record(Get(topic.topic_id), Get(topic.create_time),
                       qn.val, qt.val, an.val, at.val))

\* topic.get('type') == 'q&a' and 'question' in topic and 'answer' in topic
IsQA(topic) ==
    /\ topic.type = "q&a"
    /\ topic.question.k # "absent"
    /\ topic.answer.k # "absent"

\* parse_topics.py: one pass of `for topic in topics`, from entry i on.
\* Only KeyError is caught inside the loop; no read of the try block raises it.
RECURSIVE parse_topics_loop(_, _, _)
parse_topics_loop(topics, i, extracted_qas) ==
    IF i > Len(topics) THEN Ok(extracted_qas)
    ELSE LET topic == topics[i] IN
         IF topic.shape = "str" THEN Raise("AttributeError", <<>>)
         ELSE IF ~IsQA(topic) THEN parse_topics_loop(topics, i + 1, extracted_qas)
         ELSE LET r == ExtractFields(topic) IN
              IF r.exc = "none"
              THEN parse_topics_loop(topics, i + 1, Append(extracted_qas, r.val))
              ELSE IF r.exc = "KeyError"
              THEN parse_topics_loop(topics, i + 1, extracted_qas)
              ELSE Raise(r.exc, <<>>)

\* parse_topics.py parse_single_file: the list of records, or the exception raised.
parse_single_file(doc) ==
    IF doc.kind = "noperm" THEN Raise("PermissionError", <<>>)
    ELSE IF doc.kind = "badjson" THEN Raise("JSONDecodeError", <<>>)
    ELSE IF doc.kind = "notdict" THEN Raise("AttributeError", <<>>)
    ELSE parse_topics_loop(doc.topics, 1, <<>>)

\* parse_single_qa.py parse_single_topic_file: <<record>>, <<>> for None, or the
\* exception raised.  A failure inside the try block is re-raised as Exception.
parse_single_topic_file(doc) ==
    IF doc.kind = "noperm" THEN Raise("PermissionError", <<>>)
    ELSE IF doc.kind = "badjson" THEN Raise("JSONDecodeError", <<>>)
    ELSE IF doc.kind = "notdict" THEN Raise("AttributeError", <<>>)
    ELSE LET topic == doc.topic IN
         IF topic.shape = "empty" THEN Ok(<<>>)
         ELSE IF topic.shape = "str" THEN Raise("AttributeError", <<>>)
         ELSE IF ~IsQA(topic) THEN Ok(<<>>)
         ELSE LET r == ExtractFields(topic) IN
              IF r.exc = "none" THEN Ok(<<r.val>>) ELSE Raise("Exception", <<>>)

(***************************************************************************)
(* json.dump / json.load of the interchange file: None <-> null.           *)
(***************************************************************************)
DumpLeaf(leaf) == IF leaf.k = "None" THEN [leaf EXCEPT !.k = "null"] ELSE leaf
LoadLeaf(leaf) == IF leaf.k = "null" THEN [leaf EXCEPT !.k = "None"] ELSE leaf
DumpRecord(r) == [f \in DOMAIN r |-> DumpLeaf(r[f])]
LoadRecord(r) == [f \in DOMAIN r |-> LoadLeaf(r[f])]
json_dump(qas) == [i \in 1..Len(qas) |-> DumpRecord(qas[i])]
json_load(items) == [i \in 1..Len(items) |-> LoadRecord(items[i])]

\* An interchange file: kind is "missing", "badjson", "notlist" (valid JSON whose
\* top level is no array) or "list".
File(kind, items) == [kind |-> kind, items |-> items]
MissingFile == File("missing", <<>>)

(***************************************************************************)
(* Inputs of the extractors.                                               *)
(***************************************************************************)
Ann == Str(<<"A", "n", "n">>)
Bob == Str(<<"B", "o", "b">>)
Id42 == Str(<<"4", "2">>)
Id7 == Num(<<"7">>)
Hi == Str(<<"h", "i">>)
Yes == Str(<<"y", "e", "s">>)
T0800 == TStr(TimeStr("nocolon", 480, 0))
T0700 == TStr(TimeStr("nocolon", 420, 0))
TNaive == TStr(TimeStr("naive", 480, 0))

\* a complete q&a topic
FullTopic == Topic("dict", "q&a", Id42, T0800,
                   Sub("dict", Owner("dict", Ann), Hi), Sub("dict", Owner("dict", Bob), Yes))
\* a q&a topic whose leaves are partly missing: no id, no time, no questioner,
\* an owner without a name, no question text
SparseTopic == Topic("dict", "q&a", Absent, TAbsent,
                     Sub("dict", NoOwner, Absent), Sub("dict", Owner("dict", Absent), Yes))
\* another type, with question and answer
TalkTopic == Topic("dict", "talk", Id7, T0700,
                   Sub("dict", Owner("dict", Ann), Hi), Sub("dict", Owner("dict", Bob), Yes))
\* type q&a without an answer
NoAnswerTopic == Topic("dict", "q&a", Id7, T0700, Sub("dict", Owner("dict", Ann), Hi), NoSub)
\* type q&a whose question is a string
BadQuestionTopic == Topic("dict", "q&a", Id7, T0700,
                          Sub("str", NoOwner, Absent), Sub("dict", Owner("dict", Bob), Yes))
\* type q&a whose answer is null
NullAnswerTopic == Topic("dict", "q&a", Id7, T0700,
                         Sub("dict", Owner("dict", Ann), Hi), Sub("None", NoOwner, Absent))
\* type q&a whose question owner is a string
BadOwnerTopic == Topic("dict", "q&a", Id7, T0700,
                       Sub("dict", Owner("str", Absent), Hi), Sub("dict", Owner("dict", Bob), Yes))

ListTopics == {FullTopic, SparseTopic, TalkTopic, BadQuestionTopic}
SingleTopics == {FullTopic, SparseTopic, TalkTopic, NoAnswerTopic, BadQuestionTopic,
                 NullAnswerTopic, BadOwnerTopic, StrTopic, EmptyTopic}
BrokenDocs == {Doc("noperm", <<>>, EmptyTopic), Doc("badjson", <<>>, EmptyTopic),
               Doc("notdict", <<>>, EmptyTopic)}
TopicsDocs == BrokenDocs \cup {Doc("dict", ts, EmptyTopic) : ts \in SeqsUpTo(ListTopics, MaxTopics)}
\* The directories drawn for parse_topics.py: up to MaxFiles files, at most one of
\* which holds more than one topic.
SmallTopicsDocs == {d \in TopicsDocs : Len(d.topics) <= 1}
TopicsDirs ==
    SeqsUpTo(SmallTopicsDocs, MaxFiles)
        \cup UNION {{SubSeq(fs, 1, i) \o <<d>> \o SubSeq(fs, i + 1, Len(fs)) :
                        i \in 0..Len(fs), d \in TopicsDocs \ SmallTopicsDocs} :
                    fs \in SeqsUpTo(SmallTopicsDocs, MaxFiles - 1)}
SingleDocs == BrokenDocs \cup {Doc("dict", <<>>, t) : t \in SingleTopics}

(***************************************************************************)
(* qa2md.py: the sort key.                                                 *)
(***************************************************************************)
\* A datetime: tz is "naive" or "aware", local the wall-clock minutes, off the
\* UTC offset in minutes.  datetime.min is naive and below every parsed value.
DateTime(tz, local, off) == [tz |-> tz, local |-> local, off |-> off]
datetime_min == DateTime("naive", 0, 0)

\* datetime.fromisoformat: ValueError for a string that is not ISO-8601, and, before
\* Python 3.11, for an offset written without a colon.
fromisoformat(ts) ==
    IF ts.form = "naive" THEN Ok(DateTime("naive", ts.local, 0))
    ELSE IF ts.form = "colon" THEN Ok(DateTime("aware", ts.local, ts.off))
    ELSE IF ts.form = "nocolon" /\ py311 THEN Ok(DateTime("aware", ts.local, ts.off))
    ELSE Raise("ValueError", datetime_min)

get_sort_key(item) ==
    LET time_str == Get(item.create_time) IN
    IF time_str.k = "None" \/ time_str.v.form = "empty" THEN datetime_min
    ELSE LET r == fromisoformat(time_str.v) IN
         IF r.exc = "none" THEN r.val ELSE datetime_min

\* a < b on datetimes raises TypeError when one is naive and the other aware
Comparable(a, b) == a.tz = b.tz
Instant(d) == d.local - d.off
DateTimeLess(a, b) == Instant(a) < Instant(b)
\* a == b never raises: a naive and an aware datetime are unequal
DateTimeEq(a, b) == a.tz = b.tz /\ Instant(a) = Instant(b)

\* list.sort(key=get_sort_key): a stable insertion sort; it raises as soon as it has
\* to compare a naive key with an aware one, which any list holding both forces.
RECURSIVE InsertByKey(_, _)
InsertByKey(sorted, x) ==
    IF sorted = <<>> THEN Ok(<<x>>)
    ELSE LET last == sorted[Len(sorted)] IN
         IF ~Comparable(get_sort_key(x), get_sort_key(last)) THEN Raise("TypeError", <<>>)
         ELSE IF DateTimeLess(get_sort_key(x), get_sort_key(last))
         THEN LET r == InsertByKey(SubSeq(sorted, 1, Len(sorted) - 1), x) IN
              IF r.exc = "none" THEN Ok(Append(r.val, last)) ELSE r
         ELSE Ok(Append(sorted, x))

RECURSIVE SortFrom(_, _, _)
SortFrom(list, i, sorted) ==
    IF i > Len(list) THEN Ok(sorted)
    ELSE LET r == InsertByKey(sorted, list[i]) IN
         IF r.exc = "none" THEN SortFrom(list, i + 1, r.val) ELSE r

sort_by_key(list) == SortFrom(list, 1, <<>>)

(***************************************************************************)
(* qa2md.py: generate_markdown_content.                                    *)
(***************************************************************************)
PreviewLen == 20
Ellipsis == <<".", ".", ".">>
Whitespace == {" ", "\n", "\t"}
UnknownId == Str(<<"u", "n", "k", "n", "o", "w", "n", "-", "i", "d">>)
AnchorPrefix == <<"q", "a", "-">>
NoQuestion == <<"(", "n", "o", " ", "q", ")">>       \* the question placeholder
Anonymous == Str(<<"a", "n", "o", "n">>)             \* the name placeholder
NoAnswer == Str(<<"(", "n", "o", " ", "a", ")">>)    \* the answer placeholder

\* f"{x}": str(None) is "None", a string is itself, a number its digits
Format(leaf) == IF leaf.k = "None" THEN <<"N", "o", "n", "e">> ELSE leaf.v

\* s.replace('\n', rep)
RECURSIVE ReplaceNewline(_, _)
ReplaceNewline(s, rep) ==
    IF s = <<>> THEN <<>>
    ELSE (IF Head(s) = "\n" THEN rep ELSE <<Head(s)>>) \o ReplaceNewline(Tail(s), rep)

\* s.strip()
RECURSIVE LStrip(_)
LStrip(s) == IF s # <<>> /\ Head(s) \in Whitespace THEN LStrip(Tail(s)) ELSE s
RECURSIVE RStrip(_)
RStrip(s) ==
    IF s # <<>> /\ s[Len(s)] \in Whitespace THEN RStrip(SubSeq(s, 1, Len(s) - 1)) ELSE s
Strip(s) == RStrip(LStrip(s))

\* s[:n]
Take(s, n) == SubSeq(s, 1, IF Len(s) < n THEN Len(s) ELSE n)

\* if len(question_head) > 20
NeedsEllipsisAtLimit(question_head) == Len(question_head) >= PreviewLen
NeedsEllipsis(question_head) == Len(question_head) > PreviewLen

\* the question preview of a TOC entry; `not question_head` holds for None and ''
QuestionPreview(question_head) ==
    IF question_head.k = "None" \/ question_head.v = <<>> THEN NoQuestion
    ELSE LET question_preview == Strip(ReplaceNewline(Take(question_head.v, PreviewLen), <<" ">>))
         IN  IF NeedsEllipsis(question_head.v) THEN question_preview \o Ellipsis
             ELSE question_preview

\* time_str_simple: the invalid marker, or strftime of the local wall-clock time
Time(valid, minutes) == [valid |-> valid, minutes |-> minutes]
NoTimeShown == Time(FALSE, 0)
TimeSimple(time_obj) ==
    IF DateTimeEq(time_obj, datetime_min) THEN NoTimeShown ELSE Time(TRUE, time_obj.local)

\* a line of the document
Line(kind, index, time, text, target) ==
    [kind |-> kind, index |-> index, time |-> time, text |-> text, target |-> target]
Fixed(kind) == Line(kind, 0, NoTimeShown, <<>>, <<>>)

\* topic_id = qa.get('topic_id', 'unknown-id'); anchor = f"qa-{topic_id}"
Anchor(qa) == AnchorPrefix \o Format(GetDefault(qa.topic_id, UnknownId))

\* one pass of the loop: the TOC entry, then the lines of the body up to the first
\* that raises.  question_head.replace raises AttributeError when question_head is None.
TocEntry(index, qa) ==
    Line("entry", index, TimeSimple(get_sort_key(qa)),
         QuestionPreview(GetDefault(qa.question_text, Str(<<>>))), Anchor(qa))
BodyHead(index, qa) ==
    << Fixed("rule"),
       Line("anchor", 0, NoTimeShown, <<>>, Anchor(qa)),
       Line("heading", index, TimeSimple(get_sort_key(qa)),
            Format(GetDefault(qa.topic_id, UnknownId)), <<>>) >>
BodyTail(index, qa) ==
    LET question_head == GetDefault(qa.question_text, Str(<<>>)) IN
    << Line("asker", 0, NoTimeShown, Format(GetDefault(qa.questioner_name, Anonymous)), <<>>),
       Line("quote", 0, NoTimeShown,
            <<">", " ">> \o ReplaceNewline(question_head.v, <<"\n", ">", " ">>), <<>>),
       Line("answerer", 0, NoTimeShown, Format(GetDefault(qa.answerer_name, Anonymous)), <<>>),
       Line("answer", 0, NoTimeShown, Format(GetDefault(qa.answer_text, NoAnswer)), <<>>) >>

Rendered(exc, toc, content) == [exc |-> exc, toc_lines |-> toc, content_lines |-> content]

RECURSIVE RenderFrom(_, _, _, _)
RenderFrom(list, index, toc, content) ==
    IF index > Len(list) THEN Rendered("none", toc, content)
    ELSE LET qa == list[index]
             toc1 == Append(toc, TocEntry(index, qa))
             content1 == content \o BodyHead(index, qa)
         IN  IF GetDefault(qa.question_text, Str(<<>>)).k = "None"
             THEN Rendered("AttributeError", toc1, content1)
             ELSE RenderFrom(list, index + 1, toc1, content1 \o BodyTail(index, qa))

\* (without the branch for an empty list)
generate_markdown_content_unguarded(list) ==
    RenderFrom(list, 1, <<Fixed("title"), Fixed("toc_heading")>>, <<>>)

generate_markdown_content(list) ==
    LET head == <<Fixed("title"), Fixed("toc_heading")>> IN
    IF list = <<>> THEN Rendered("none", Append(head, Fixed("notice")), <<>>)
    ELSE RenderFrom(list, 1, head, <<>>)

\* the string returned: the TOC lines, then the body lines
Document(toc, content) == [toc |-> toc, body |-> content]
NoDocument == Document(<<>>, <<>>)

\* the compiler's output file: "missing", "old" (left by an earlier run) or "written"
MdFile(kind, doc) == [kind |-> kind, doc |-> doc]
MissingMd == MdFile("missing", NoDocument)
OldMd == MdFile("old", NoDocument)

(***************************************************************************)
(* process_directory, both extractors.                                     *)
(***************************************************************************)
CompilerIdle ==
    /\ entry = "none" /\ py311 \in BOOLEAN /\ qa_list = <<>> /\ cpc = "start"
    /\ cerr = "none" /\ toc_lines = <<>> /\ content_lines = <<>>
    /\ markdown_content = NoDocument /\ md_file = MissingMd

ExtractorStart ==
    /\ idx = 1 /\ all_extracted_qas = <<>> /\ files_processed = 0 /\ files_failed = 0
    /\ total_qa_extracted = 0 /\ report = <<>> /\ epc = "start"
    /\ interchange = MissingFile

InitExtract ==
    /\ \/ /\ prog = "topics" /\ input_is_dir = TRUE
          /\ json_files \in TopicsDirs
       \/ /\ prog = "single" /\ input_is_dir = TRUE
          /\ json_files \in SeqsUpTo(SingleDocs, MaxFiles)
       \/ /\ prog \in {"topics", "single"} /\ input_is_dir = FALSE
          /\ json_files = <<>>
    /\ ExtractorStart
    /\ CompilerIdle

\* all_extracted_qas.extend(qas_from_file) / all_extracted_qas.append(qa_item)
ExtendQas(all, qas) == all \o qas

\* total_qa_extracted += num_extracted
CountExtractedOne(total, qas) == total + 1
CountExtracted(total, qas) == total + Len(qas)

Running == epc = "loop" /\ idx <= Len(json_files)

\* if not input_path.is_dir(): return
NotADirectory ==
    /\ epc = "start" /\ ~input_is_dir
    /\ epc' = "returned"
    /\ UNCHANGED <<prog, input_is_dir, json_files, idx, all_extracted_qas, files_processed,
                   files_failed, total_qa_extracted, report, interchange, cvars>>

\* if not json_files: return
NoJsonFiles ==
    /\ epc = "start" /\ input_is_dir /\ json_files = <<>>
    /\ epc' = "returned"
    /\ report' = <<"no_files">>
    /\ UNCHANGED <<prog, input_is_dir, json_files, idx, all_extracted_qas, files_processed,
                   files_failed, total_qa_extracted, interchange, cvars>>

\* the counters are initialised and the loop is entered
BeginLoop ==
    /\ epc = "start" /\ input_is_dir /\ json_files # <<>>
    /\ epc' = "loop"
    /\ idx' = 1 /\ all_extracted_qas' = <<>> /\ files_processed' = 0 /\ files_failed' = 0
    /\ total_qa_extracted' = 0
    /\ UNCHANGED <<prog, input_is_dir, json_files, report, interchange, cvars>>

\* (a handler that gives the batch up at the first bad file)
FileFailedAbort(msg) ==
    /\ files_failed' = files_failed + 1
    /\ report' = Append(report, msg)
    /\ idx' = Len(json_files) + 1
    /\ UNCHANGED <<prog, input_is_dir, json_files, all_extracted_qas, files_processed,
                   total_qa_extracted, epc, interchange, cvars>>

\* The handler of a file that raised: files_failed += 1, nothing else.
FileFailed(msg) ==
    /\ files_failed' = files_failed + 1
    /\ report' = Append(report, msg)
    /\ idx' = idx + 1
    /\ UNCHANGED <<prog, input_is_dir, json_files, all_extracted_qas, files_processed,
                   total_qa_extracted, epc, interchange, cvars>>

\* parse_topics.py: the try body of one loop pass
Topics_FileOk ==
    /\ prog = "topics" /\ Running
    /\ LET r == parse_single_file(json_files[idx]) IN
       /\ r.exc = "none"
       /\ IF r.val # <<>>
          THEN /\ all_extracted_qas' = ExtendQas(all_extracted_qas, r.val)
               /\ total_qa_extracted' = CountExtracted(total_qa_extracted, r.val)
               /\ report' = Append(report, "extracted")
          ELSE /\ UNCHANGED <<all_extracted_qas, total_qa_extracted>>
               /\ report' = Append(report, "no_qa")
    /\ files_processed' = files_processed + 1
    /\ idx' = idx + 1
    /\ UNCHANGED <<prog, input_is_dir, json_files, files_failed, epc, interchange, cvars>>

Topics_JSONDecodeError ==
    /\ prog = "topics" /\ Running
    /\ parse_single_file(json_files[idx]).exc = "JSONDecodeError"
    /\ FileFailed("json_error")

Topics_PermissionError ==
    /\ prog = "topics" /\ Running
    /\ parse_single_file(json_files[idx]).exc = "PermissionError"
    /\ FileFailed("permission_error")

Topics_Exception ==
    /\ prog = "topics" /\ Running
    /\ parse_single_file(json_files[idx]).exc \notin {"none", "JSONDecodeError", "PermissionError"}
    /\ FileFailed("unexpected_error")

\* parse_single_qa.py: the try body of one loop pass
Single_FileOk ==
    /\ prog = "single" /\ Running
    /\ LET r == parse_single_topic_file(json_files[idx]) IN
       /\ r.exc = "none"
       /\ files_processed' = files_processed + 1
       /\ IF r.val # <<>>
          THEN /\ all_extracted_qas' = ExtendQas(all_extracted_qas, r.val)
               /\ total_qa_extracted' = CountExtracted(total_qa_extracted, r.val)
               /\ report' = Append(report, "extracted")
          ELSE /\ UNCHANGED <<all_extracted_qas, total_qa_extracted>>
               /\ report' = Append(report, "no_qa")
    /\ idx' = idx + 1
    /\ UNCHANGED <<prog, input_is_dir, json_files, files_failed, epc, interchange, cvars>>

Single_JSONDecodeError ==
    /\ prog = "single" /\ Running
    /\ parse_single_topic_file(json_files[idx]).exc = "JSONDecodeError"
    /\ FileFailed("json_error")

Single_PermissionError ==
    /\ prog = "single" /\ Running
    /\ parse_single_topic_file(json_files[idx]).exc = "PermissionError"
    /\ FileFailed("permission_error")

Single_Exception ==
    /\ prog = "single" /\ Running
    /\ parse_single_topic_file(json_files[idx]).exc
           \notin {"none", "JSONDecodeError", "PermissionError"}
    /\ FileFailed("unexpected_error")

\* json.dump(all_extracted_qas, f), then the summary
WriteOutput ==
    /\ epc = "loop" /\ idx > Len(json_files)
    /\ interchange' = File("list", json_dump(all_extracted_qas))
    /\ epc' = "done"
    /\ UNCHANGED <<prog, input_is_dir, json_files, idx, all_extracted_qas, files_processed,
                   files_failed, total_qa_extracted, report, cvars>>

\* open(output_file, 'w') raises: reported, then the summary
WriteOutputFails ==
    /\ epc = "loop" /\ idx > Len(json_files)
    /\ epc' = "done"
    /\ UNCHANGED <<prog, input_is_dir, json_files, idx, all_extracted_qas, files_processed,
                   files_failed, total_qa_extracted, report, interchange, cvars>>

NextExtract ==
    \/ NotADirectory \/ NoJsonFiles \/ BeginLoop
    \/ Topics_FileOk \/ Topics_JSONDecodeError \/ Topics_PermissionError \/ Topics_Exception
    \/ Single_FileOk \/ Single_JSONDecodeError \/ Single_PermissionError \/ Single_Exception
    \/ WriteOutput \/ WriteOutputFails

SpecExtract == InitExtract /\ [][NextExtract]_vars

(***************************************************************************)
(* Properties of the extractors.                                           *)
(***************************************************************************)
Parse(doc) == IF prog = "topics" THEN parse_single_file(doc) ELSE parse_single_topic_file(doc)
Handled == IF epc \in {"loop", "done"} THEN idx - 1 ELSE 0
Fails(i) == Parse(json_files[i]).exc # "none"
FailureReports == {"json_error", "permission_error", "unexpected_error"}
GoodFiles == SelectSeq(SubSeq(json_files, 1, Handled), LAMBDA d : Parse(d).exc = "none")
RecordsOfGoodFiles == Flatten([i \in 1..Len(GoodFiles) |-> Parse(GoodFiles[i]).val])

\* C2: a file that raises is counted as failed and adds nothing; every other file is
\* still handled; the accumulator, and the array written, is the concatenation of the
\* records of the non-failing files in processing order.
C2_FailureIsolation ==
    /\ Len(report) >= Handled
    /\ \A i \in 1..Handled : Fails(i) <=> report[i] \in FailureReports
    /\ files_failed = Cardinality({i \in 1..Handled : Fails(i)})
    /\ files_processed = Cardinality({i \in 1..Handled : ~Fails(i)})
    /\ epc \in {"loop", "done"} => all_extracted_qas = RecordsOfGoodFiles
    /\ epc = "done" => Handled = Len(json_files)
    /\ interchange.kind = "list" => interchange.items = json_dump(RecordsOfGoodFiles)

C2_Witness ==
    /\ epc = "done" /\ interchange.kind = "list"
    /\ Len(json_files) = MaxFiles
    /\ Fails(1) /\ ~Fails(MaxFiles)
    /\ Len(interchange.items) >= 1

\* C3: in the multi-topic extractor a candidate that passes the predicate but has a
\* malformed nested structure is skipped alone: its document is not failed and the
\* well-formed candidates around it still yield their records.
WellFormed(topic) == ExtractFields(topic).exc = "none"
AllEntriesAreObjects(doc) ==
    doc.kind = "dict" /\ \A j \in 1..Len(doc.topics) : doc.topics[j].shape # "str"
RecordsOfWellFormed(doc) ==
    LET good == SelectSeq(doc.topics, LAMBDA t : IsQA(t) /\ WellFormed(t))
    IN  [j \in 1..Len(good) |-> ExtractFields(good[j]).val]
C3_CandidateIsolation ==
    (prog = "topics" /\ epc = "done") =>
       /\ \A i \in 1..Len(json_files) :
             AllEntriesAreObjects(json_files[i]) => report[i] \notin FailureReports
       /\ all_extracted_qas =
             Flatten([i \in 1..Len(json_files) |->
                        IF AllEntriesAreObjects(json_files[i])
                        THEN RecordsOfWellFormed(json_files[i]) ELSE <<>>])

\* C4: for a document that parses as JSON a record is yielded for a candidate exactly
\* when the candidate has type q&a and holds a question and an answer entry, and no
\* candidate raises an error: one record or none in the single-topic extractor, as
\* many records as entries satisfying the predicate in the multi-topic extractor.
Candidates(doc) == IF prog = "topics" THEN doc.topics ELSE <<doc.topic>>
AllCandidatesAreObjects(doc) ==
    doc.kind = "dict" /\ \A j \in 1..Len(Candidates(doc)) : Candidates(doc)[j].shape # "str"
C4_RecordIffPredicate ==
    epc = "done" =>
       \A i \in 1..Len(json_files) :
          AllCandidatesAreObjects(json_files[i]) =>
             /\ report[i] \notin FailureReports
             /\ Len(Parse(json_files[i]).val)
                   = Len(SelectSeq(Candidates(json_files[i]), IsQA))

\* C10: after each file handled, processed + failed is the number of files handled and
\* the record total is the length of the accumulator; the accumulator only grows by
\* appending; at the summary the counts cover every file and the array written.
CountersAgree ==
    /\ epc \in {"loop", "done"} =>
          /\ files_processed + files_failed = Handled
          /\ total_qa_extracted = Len(all_extracted_qas)
    /\ epc = "done" =>
          /\ files_processed + files_failed = Len(json_files)
          /\ interchange.kind = "list" => total_qa_extracted = Len(interchange.items)
C10_BatchCounters ==
    /\ []CountersAgree
    /\ [][IsPrefix(all_extracted_qas, all_extracted_qas')]_vars

C10_Witness ==
    /\ epc = "done" /\ interchange.kind = "list"
    /\ files_processed >= 1 /\ files_failed >= 1 /\ total_qa_extracted >= 2

(***************************************************************************)
(* Inputs of the compiler.                                                 *)
(***************************************************************************)
Aware(local, off) == TStr(TimeStr("colon", local, off))
TimeVals == {TAbsent, TNone, TStr(TimeStr("empty", 0, 0)), TStr(TimeStr("garbage", 0, 0)),
             TNaive, Aware(480, 60), Aware(450, 0), T0800, T0700}
SortRecords == {Record(Id42, t, Ann, Hi, Bob, Yes) : t \in TimeVals}

Letters == <<"A", "B", "C", "D", "E", "F", "G", "H", "I", "J", "K", "L", "M",
             "N", "O", "P", "Q", "R", "S", "T", "U", "V", "W", "X", "Y">>
Heads == {<<>>, <<" ">>, <<"\n", "x">>}
Fills == {Rep("a", n) : n \in {0, PreviewLen - 3, PreviewLen - 1}}
Tails == {<<>>, <<" ">>, <<"\n">>, <<"b", "c">>, <<" ", "d">>, <<"\n", "\t", "e">>}
Texts == {h \o f \o t : h \in Heads, f \in Fills, t \in Tails}
            \cup {Take(Letters, n) : n \in (PreviewLen - 1)..(PreviewLen + 1)}
            \cup {Letters}
TextVals == {Absent, None} \cup {Str(t) : t \in Texts}
IdVals == {Absent, None, Id42, Id7}
RenderRecords ==
    {Record(Id42, TAbsent, Ann, q, Bob, Yes) : q \in TextVals}
        \cup {Record(id, TNaive, who[1], Hi, who[1], who[2]) :
                 id \in IdVals, who \in {<<Absent, Absent>>, <<None, None>>, <<Ann, Yes>>}}
InputLists == SeqsUpTo(SortRecords, MaxSortLen) \cup SeqsUpTo(RenderRecords, MaxRenderLen)

ExtractorIdle ==
    /\ prog = "none" /\ input_is_dir = FALSE /\ json_files = <<>> /\ idx = 1
    /\ all_extracted_qas = <<>> /\ files_processed = 0 /\ files_failed = 0
    /\ total_qa_extracted = 0 /\ report = <<>> /\ epc = "idle"

CompilerStart ==
    /\ py311 \in BOOLEAN /\ cpc = "start" /\ cerr = "none"
    /\ toc_lines = <<>> /\ content_lines = <<>> /\ markdown_content = NoDocument

\* create_markdown_compilation on an arbitrary input file, or
\* generate_markdown_content called on an arbitrary list.
InitCompile ==
    /\ ExtractorIdle
    /\ CompilerStart
    /\ \/ /\ entry = "compile"
          /\ interchange \in {File(k, <<>>) : k \in {"missing", "badjson", "noperm", "notlist"}}
                                \cup {File("list", json_dump(l)) : l \in InputLists}
          /\ qa_list = <<>>
          /\ md_file \in {MissingMd, OldMd}
       \/ /\ entry = "render"
          /\ interchange = MissingFile
          /\ qa_list \in InputLists
          /\ md_file = MissingMd

(***************************************************************************)
(* qa2md.py: create_markdown_compilation.                                  *)
(***************************************************************************)
\* if not isinstance(qa_list, list) or not qa_list
IsRejectedUnlessEmpty(file) == file.kind = "notlist"
IsRejected(file) == file.kind = "notlist" \/ file.items = <<>>

CompileStarts == entry = "compile" /\ cpc = "start" /\ epc \in {"idle", "done"}

LoadFails(kind, err) ==
    /\ CompileStarts
    /\ interchange.kind = kind
    /\ cpc' = "returned"
    /\ cerr' = err
    /\ UNCHANGED <<evars, interchange, entry, py311, qa_list, toc_lines, content_lines,
                   markdown_content, md_file>>

Load_FileNotFoundError ==
    /\ interchange.kind = "missing"
    /\ LoadFails("missing", "FileNotFoundError")

Load_JSONDecodeError ==
    /\ interchange.kind = "badjson"
    /\ LoadFails("badjson", "JSONDecodeError")

Load_Exception ==
    /\ interchange.kind = "noperm"
    /\ LoadFails("noperm", "Exception")

Load_Rejected ==
    /\ CompileStarts
    /\ interchange.kind \in {"notlist", "list"}
    /\ IsRejected(interchange)
    /\ cpc' = "returned"
    /\ cerr' = "empty_or_not_list"
    /\ UNCHANGED <<evars, interchange, entry, py311, qa_list, toc_lines, content_lines,
                   markdown_content, md_file>>

Load_Ok ==
    /\ CompileStarts
    /\ interchange.kind \in {"notlist", "list"}
    /\ ~IsRejected(interchange)
    /\ qa_list' = json_load(interchange.items)
    /\ cpc' = "loaded"
    /\ UNCHANGED <<evars, interchange, entry, py311, cerr, toc_lines, content_lines,
                   markdown_content, md_file>>

\* qa_list.sort(key=get_sort_key)
Sort_Ok ==
    /\ cpc = "loaded"
    /\ sort_by_key(qa_list).exc = "none"
    /\ qa_list' = sort_by_key(qa_list).val
    /\ cpc' = "sorted"
    /\ UNCHANGED <<evars, interchange, entry, py311, cerr, toc_lines, content_lines,
                   markdown_content, md_file>>

\* the comparison raises; nothing in create_markdown_compilation catches it
Sort_TypeError ==
    /\ cpc = "loaded"
    /\ sort_by_key(qa_list).exc # "none"
    /\ cpc' = "crashed"
    /\ cerr' = sort_by_key(qa_list).exc
    /\ UNCHANGED <<evars, interchange, entry, py311, qa_list, toc_lines, content_lines,
                   markdown_content, md_file>>

RenderStarts == \/ entry = "compile" /\ cpc = "sorted"
                \/ entry = "render" /\ cpc = "start"

\* markdown_content = generate_markdown_content(qa_list)
Render_Ok ==
    /\ RenderStarts
    /\ LET r == generate_markdown_content(qa_list) IN
       /\ r.exc = "none"
       /\ toc_lines' = r.toc_lines
       /\ content_lines' = r.content_lines
       /\ markdown_content' = Document(r.toc_lines, r.content_lines)
    /\ cpc' = "rendered"
    /\ UNCHANGED <<evars, interchange, entry, py311, qa_list, cerr, md_file>>

\* generate_markdown_content raises; nothing catches it
Render_AttributeError ==
    /\ RenderStarts
    /\ LET r == generate_markdown_content(qa_list) IN
       /\ r.exc # "none"
       /\ toc_lines' = r.toc_lines
       /\ content_lines' = r.content_lines
       /\ cerr' = r.exc
    /\ cpc' = "crashed"
    /\ UNCHANGED <<evars, interchange, entry, py311, qa_list, markdown_content, md_file>>

\* f.write(markdown_content)
WriteMarkdown ==
    /\ entry = "compile" /\ cpc = "rendered"
    /\ md_file' = MdFile("written", markdown_content)
    /\ cpc' = "done"
    /\ UNCHANGED <<evars, interchange, entry, py311, qa_list, cerr, toc_lines, content_lines,
                   markdown_content>>

\* the write raises: reported
WriteMarkdownFails ==
    /\ entry = "compile" /\ cpc = "rendered"
    /\ cerr' = "write_error"
    /\ cpc' = "done"
    /\ UNCHANGED <<evars, interchange, entry, py311, qa_list, toc_lines, content_lines,
                   markdown_content, md_file>>

NextCompile ==
    \/ Load_FileNotFoundError \/ Load_JSONDecodeError \/ Load_Exception
    \/ Load_Rejected \/ Load_Ok
    \/ Sort_Ok \/ Sort_TypeError
    \/ Render_Ok \/ Render_AttributeError
    \/ WriteMarkdown \/ WriteMarkdownFails

SpecCompile == InitCompile /\ [][NextCompile]_vars

(***************************************************************************)
(* Properties of the compiler.                                             *)
(***************************************************************************)
Loaded == json_load(interchange.items)
Orderings(n) == {p \in [1..n -> 1..n] : \A i, j \in 1..n : i # j => p[i] # p[j]}

\* C5: the key the sort is said to use: the minimum for an absent, empty or unparsable
\* create_time, the absolute instant otherwise.
ClaimedFallback(r) ==
    r.create_time.k \in {"absent", "None"} \/ r.create_time.v.form \in {"empty", "garbage"}
ClaimedKey(r) ==
    IF ClaimedFallback(r) THEN -1 ELSE r.create_time.v.local - r.create_time.v.off
IsStableSortOf(sorted, list) ==
    /\ Len(sorted) = Len(list)
    /\ \E p \in Orderings(Len(list)) :
          /\ \A i \in 1..Len(list) : sorted[i] = list[p[i]]
          /\ \A i, j \in 1..Len(list) :
                i < j => \/ ClaimedKey(sorted[i]) < ClaimedKey(sorted[j])
                         \/ ClaimedKey(sorted[i]) = ClaimedKey(sorted[j]) /\ p[i] < p[j]
\* C5: for every non-empty interchange list the sort completes without an error and
\* leaves the stable sort of the input by that key: fallback records first, then
\* chronological by absolute instant, ties in input order.
C5_SortByTimestamp ==
    (entry = "compile" /\ interchange.kind = "list" /\ interchange.items # <<>>) =>
       /\ cerr # "TypeError"
       /\ cpc \in {"sorted", "rendered", "done"} => IsStableSortOf(qa_list, Loaded)

\* C6: the TOC link target and the body anchor of a record are the same string, qa-
\* followed by the topic_id, and exactly qa-unknown-id when the topic_id is absent
\* (key missing or null).
ClaimedAnchor(r) ==
    AnchorPrefix \o (IF r.topic_id.k \in {"absent", "None"} THEN UnknownId.v ELSE r.topic_id.v)
AnchorLines == SelectSeq(content_lines, LAMBDA l : l.kind = "anchor")
Entries == SelectSeq(toc_lines, LAMBDA l : l.kind = "entry")
C6_Anchors ==
    /\ Len(AnchorLines) = Len(Entries)
    /\ \A i \in 1..Len(Entries) :
          /\ Entries[i].target = AnchorLines[i].target
          /\ Entries[i].target = ClaimedAnchor(qa_list[i])

\* C7: given an input file that is missing, not JSON, not an array or an empty array,
\* create_markdown_compilation reports an error and returns: nothing is loaded, sorted
\* or rendered and the output file is neither created nor modified.
Unusable(file) ==
    \/ file.kind \in {"missing", "badjson", "notlist"}
    \/ file.kind = "list" /\ file.items = <<>>
C7_InputRejected ==
    (entry = "compile" /\ Unusable(interchange)) =>
       /\ cpc \in {"start", "returned"}
       /\ cpc = "returned" => cerr # "none"
       /\ qa_list = <<>> /\ toc_lines = <<>> /\ content_lines = <<>>
       /\ markdown_content = NoDocument
       /\ md_file \in {MissingMd, OldMd}

C7_Witness ==
    /\ entry = "compile" /\ interchange = File("list", <<>>)
    /\ cpc = "returned" /\ cerr = "empty_or_not_list" /\ md_file = OldMd

\* C8, as stated: the compiler run on an empty array writes a document holding the
\* title and the notice and no body.
EmptyDocument == Document(<<Fixed("title"), Fixed("toc_heading"), Fixed("notice")>>, <<>>)
Finished == cpc \in {"returned", "done", "crashed"}
C8_EmptyInputWritten ==
    (entry = "compile" /\ interchange = File("list", <<>>) /\ Finished) =>
       md_file = MdFile("written", EmptyDocument)

\* C8, amended: generate_markdown_content called on an empty list returns the title,
\* the TOC heading and the notice with no body and raises nothing; the compiler run
\* on an empty array reports an error before rendering and writes no document.
C8_EmptyRenderedNotWritten ==
    /\ (entry = "render" /\ qa_list = <<>> /\ cpc # "start") =>
          /\ cpc = "rendered" /\ cerr = "none"
          /\ markdown_content = EmptyDocument
    /\ (entry = "compile" /\ interchange = File("list", <<>>)) =>
          /\ md_file.kind # "written"
          /\ markdown_content = NoDocument
          /\ Finished => cpc = "returned" /\ cerr = "empty_or_not_list"

C8_Witness ==
    /\ entry = "render" /\ qa_list = <<>> /\ cpc = "rendered"
    /\ markdown_content.body = <<>>

\* C9: the preview of a non-empty question_text is its first 20 characters with
\* newlines turned into spaces and the whitespace at both ends removed, followed by
\* the ellipsis exactly when the whole text is longer than 20 characters; a missing
\* or empty question_text gives the placeholder.
Blank(c) == c \in Whitespace
ClaimedPreview(text) ==
    LET n == IF Len(text) < PreviewLen THEN Len(text) ELSE PreviewLen
        first == [j \in 1..n |-> IF text[j] = "\n" THEN " " ELSE text[j]]
        inked == {j \in 1..n : ~Blank(first[j])}
        core == IF inked = {} THEN <<>>
                ELSE LET a == CHOOSE j \in inked : \A k \in inked : j <= k
                         b == CHOOSE j \in inked : \A k \in inked : k <= j
                     IN  [j \in 1..(b - a + 1) |-> first[a + j - 1]]
    IN  IF Len(text) > PreviewLen THEN core \o Ellipsis ELSE core
ValidTopics ==
    {Topic("dict", "q&a", id, t, Sub("dict", who[1], qt), Sub("dict", Owner("dict", Bob), who[2])) :
        id \in {Absent, Id42}, t \in {TAbsent, TNaive, T0800}, qt \in {Absent, Hi},
        who \in {<<NoOwner, Absent>>, <<Owner("dict", Ann), Yes>>}}
ValidDocs == {Doc("dict", <<>>, t) : t \in ValidTopics}

InitPipeline ==
    /\ prog = "single" /\ input_is_dir = TRUE
    /\ json_files \in SeqsUpTo(ValidDocs, MaxFiles) \ {<<>>}
    /\ ExtractorStart
    /\ entry = "compile" /\ CompilerStart /\ qa_list = <<>> /\ md_file = MissingMd

NextPipeline ==
    \/ BeginLoop \/ Single_FileOk \/ WriteOutput
    \/ Load_Ok
    \/ Sort_Ok \/ Sort_TypeError
    \/ Render_Ok \/ Render_AttributeError
    \/ WriteMarkdown

SpecPipeline == InitPipeline /\ [][NextPipeline]_vars

\* C1: for N >= 1 documents with one valid q&a candidate each, extraction followed by
\* compilation ends without an error; the interchange file holds the N records in
\* discovery order; the document has N TOC entries and N body sections numbered 1..N.
Headings(doc) == SelectSeq(doc.body, LAMBDA l : l.kind = "heading")
TocEntries(doc) == SelectSeq(doc.toc, LAMBDA l : l.kind = "entry")
C1_RoundTrip ==
    LET N == Len(json_files) IN
    /\ cerr = "none" /\ cpc # "crashed"
    /\ epc = "done" =>
          interchange = File("list", [i \in 1..N |-> DumpRecord(ExtractFields(json_files[i].topic).val)])
    /\ cpc = "done" =>
          /\ md_file.kind = "written"
          /\ Len(TocEntries(md_file.doc)) = N /\ Len(Headings(md_file.doc)) = N
          /\ \A i \in 1..N : /\ TocEntries(md_file.doc)[i].index = i
                             /\ Headings(md_file.doc)[i].index = i

(***************************************************************************)
(* Every way the programs are started.                                     *)
(***************************************************************************)
Init == InitExtract \/ InitCompile \/ InitPipeline
Next == NextExtract \/ NextCompile
Spec == Init /\ [][Next]_vars

====
